---- MODULE Spec2Model ----
(***************************************************************************)
(* Model of pkg/controllers/templating_reconciler.go: the reconcile loop   *)
(* of TemplatingReconciler and the Apply (get, then create or merge-patch) *)
(* protocol, run against a cluster store (kube) whose calls can fail.      *)
(* Every store call is one step; an error value is the sequence of its     *)
(* labels, outermost first, and the nil error is the empty sequence.       *)
(* trace and result.line are history: the calls a cycle made, in order,    *)
(* and the return statement it took.                                       *)
(* Spec is one parent with any engine; SpecLive adds the scheduler and the *)
(* end of the failures; SpecConcurrent runs the cycles of two parents that *)
(* derive the same child.                                                  *)
(***************************************************************************)
EXTENDS Naturals, Sequences, FiniteSets, TLC

\* ---------------------------------------------------------------- bounds
MaxChildren == 2          \* longest child list the templating engine returns
CustomShortWait == 5      \* a duration passed to WithShortWait
CustomLongWait == 90      \* a duration passed to WithLongWait

\* ------------------------------------------------------ program constants
defaultShortWait == 30
defaultLongWait == 60

errUpdateResourceStatus == "could not update status of the parent resource"
errGetResource == "could not get the parent resource"
errTemplatingOperation == "templating operation failed"
errChildResourcePatchers == "child resource patchers failed"
errApply == "apply failed"
errCreateChildResource == "could not create child resource"
errGetChildResource == "could not get child resource"

\* ------------------------------------------------------------ the universe
Parents == {"p1", "p2"}            \* parent identities (req.NamespacedName)
Names == {"A", "B"}                \* child identities (name/namespace/kind)
SpecValues == {"v1", "v2"}         \* values of a child's spec field

Nil == << >>                                  \* the nil error
errNotFound == <<"not found">>                \* the store's NotFound error
errAlreadyExists == <<"already exists">>      \* the store's AlreadyExists error
errStore == <<"store unavailable">>           \* any other store error
errDeadline == <<"context deadline exceeded">>
errEngine == <<"engine error">>               \* cause given by the engine
errPatcher == <<"patcher error">>             \* cause given by a patcher
errMarshal == <<"json: unsupported value">>   \* cause given by json.Marshal

\* An object's content: a function from the names of the fields it has.
NoFields == << >>
Absent == [exists |-> FALSE, fields |-> NoFields]

\* A stored child nobody templated: an old spec and a hand-set annotation.
Drifted ==
    [exists |-> TRUE,
     fields |-> [f \in {"spec", "annot"} |-> IF f = "spec" THEN "v0" ELSE "manual"]]

\* The child definitions a templating engine can return, and its outputs.
\* (A is templated with either spec value, B with the first only.)
TemplatedObjects ==
    {[name |-> n, fields |-> [f \in {"spec"} |-> v]] :
        <<n, v>> \in ({"A"} \X SpecValues) \cup (Names \X {"v1"})}

ChildLists ==
    UNION {[1..k -> TemplatedObjects] : k \in 0..MaxChildren}

\* ------------------------------------------------------------------ errors
\* errors.Wrap: nil stays nil, otherwise the label is put in front.
Wrap(err, label) == IF err = Nil THEN Nil ELSE <<label>> \o err

\* (a variant that takes every answer of the Get for NotFound)
IsNotFound_Always(err) == TRUE

\* kerrors.IsNotFound and client.IgnoreNotFound.
IsNotFound(err) == err = errNotFound

\* (a variant that ignores every error of the Get)
IgnoreNotFound_Any(err) == Nil

\* (a variant that lets the NotFound error through)
IgnoreNotFound_Keeps(err) == err

IgnoreNotFound(err) == IF IsNotFound(err) THEN Nil ELSE err

\* (a variant of line 159 that puts the error in the condition as it came)
ApplyLabel_Bare(err, o) == err

\* The label of line 159: errApply with the failing child's identity.
ApplyLabel(err, o) == IF err = Nil THEN Nil ELSE <<errApply, o.name>> \o err

\* -------------------------------------------------------------- conditions
ReconcileError(err) ==
    [type |-> "Synced", status |-> "False", reason |-> "ReconcileError",
     message |-> err]

ReconcileSuccess ==
    [type |-> "Synced", status |-> "True", reason |-> "ReconcileSuccess",
     message |-> Nil]

\* Find-or-append by type: a condition of the same type is replaced in place.
SetConditions(conds, c) ==
    IF \E k \in 1..Len(conds) : conds[k].type = c.type
    THEN [k \in 1..Len(conds) |-> IF conds[k].type = c.type THEN c ELSE conds[k]]
    ELSE Append(conds, c)

\* (a variant that never sees the deletion timestamp)
WasDeleted_Never(obj) == FALSE

\* meta.WasDeleted: the object carries a deletion timestamp.
WasDeleted(obj) == obj.deleted

\* ------------------------------------------------------------ wire formats
\* json.Marshal of a child: the set of its field/value pairs.
Marshal(o) == {<<f, o.fields[f]>> : f \in DOMAIN o.fields}

PatchKeys(patchJSON) == {kv[1] : kv \in patchJSON}

PatchValue(patchJSON, f) == (CHOOSE kv \in patchJSON : kv[1] = f)[2]

\* (a variant in which the fields the object has win over the patch)
MergePatch_Keeps(fields, patchJSON) ==
    [f \in (DOMAIN fields) \cup PatchKeys(patchJSON) |->
        IF f \in DOMAIN fields THEN fields[f] ELSE PatchValue(patchJSON, f)]

\* (a variant that replaces the object by the patch document)
MergePatch_Replace(fields, patchJSON) ==
    [f \in PatchKeys(patchJSON) |-> PatchValue(patchJSON, f)]

\* A JSON merge patch: fields of the patch overwrite, other fields stay.
MergePatch(fields, patchJSON) ==
    [f \in (DOMAIN fields) \cup PatchKeys(patchJSON) |->
        IF f \in PatchKeys(patchJSON) THEN PatchValue(patchJSON, f) ELSE fields[f]]

\* resource.NewOwnerReferenceAdder: every child gets the parent as its owner.
OwnerReferenceAdder(p, children) ==
    [k \in 1..Len(children) |->
        [children[k] EXCEPT !.fields =
            [f \in (DOMAIN children[k].fields) \cup {"owner"} |->
                IF f = "owner" THEN p ELSE children[k].fields[f]]]]

\* ChildResourcePatcherChain.Patch when no step fails.
PatcherChain(p, children) == OwnerReferenceAdder(p, children)

\* ------------------------------------------------------------------- state
VARIABLES
    active,          \* the parent identities the scheduler invokes
    outputs,         \* r.templatingEngine: the child lists its Run can return
    faulty,          \* the engine, the patchers and the store's calls can fail
    shortWait,       \* r.shortWait
    longWait,        \* r.longWait
    kubeParents,     \* the store: parent objects by identity
    kubeChildren,    \* the store: child objects by identity
    pc,              \* each cycle's position in Reconcile
    ctxDone,         \* the cycle's context deadline has fired
    cr,              \* the parent object the cycle holds
    childResources,  \* the cycle's child list
    existing,        \* the object Apply fetched
    idx,             \* position of o in the loop of line 157
    trace,           \* the calls the cycle has issued, in order
    result           \* what Reconcile returned

vars == <<active, outputs, faulty, shortWait, longWait, kubeParents, kubeChildren,
          pc, ctxDone, cr, childResources, existing, idx, trace, result>>

config == <<active, outputs, shortWait, longWait>>

NoParent == [exists |-> FALSE, deleted |-> FALSE, conditions |-> << >>]

NoObject == [name |-> "", fields |-> NoFields]

\* result.line is the line of the return statement taken (0: none yet).
NoResult == [line |-> 0, Requeue |-> FALSE, RequeueAfter |-> 0, err |-> Nil]

\* What a call reports in the trace: ok, the store's notfound or exists
\* answer, or err for a failure of the call itself.
Outcome(err) ==
    IF err = Nil THEN "ok"
    ELSE IF err = errNotFound THEN "notfound"
    ELSE IF err = errAlreadyExists THEN "exists"
    ELSE "err"

Call(op, k, name, out) == [op |-> op, idx |-> k, name |-> name, out |-> out]

\* (a variant in which every call gets a timeout of its own)
CallFailures_Fresh(p) == IF faulty THEN {Nil, errStore, errDeadline} ELSE {Nil}

\* The error a store call of cycle p can fail with, or Nil when it goes through.
\* The deadline of line 129 can fire before any call; a call made after it
\* fired fails with the deadline error.
CallFailures(p) ==
    IF ctxDone[p] THEN {errDeadline}
    ELSE IF faulty THEN {Nil, errStore, errDeadline}
    ELSE {Nil}

\* ctx after a store call of cycle p that failed with fail.
Deadline(p, fail) ==
    ctxDone' = [ctxDone EXCEPT ![p] = @ \/ fail = errDeadline]

\* The store before the first cycle: each invoked parent is absent, present or
\* marked deleted; child A is absent or present, drifted; B is absent.
InitStore ==
    /\ kubeParents \in [Parents ->
          {NoParent} \cup {[exists |-> TRUE, deleted |-> d, conditions |-> << >>] :
                              d \in BOOLEAN}]
    /\ \A p \in Parents \ active : kubeParents[p] = NoParent
    /\ kubeChildren \in {[n \in Names |-> IF n = "A" THEN a ELSE Absent] :
                             a \in {Absent, Drifted}}

\* The waits of lines 97-98, or those WithShortWait and WithLongWait set.
WaitOptions ==
    {<<defaultShortWait, defaultLongWait>>, <<CustomShortWait, CustomLongWait>>}

\* NewTemplatingReconciler with its options applied, before any cycle.
InitReconciler ==
    /\ \E w \in WaitOptions : shortWait = w[1] /\ longWait = w[2]
    /\ pc = [p \in Parents |-> "idle"]
    /\ ctxDone = [p \in Parents |-> FALSE]
    /\ cr = [p \in Parents |-> NoParent]
    /\ childResources = [p \in Parents |-> << >>]
    /\ existing = [p \in Parents |-> NoObject]
    /\ idx = [p \in Parents |-> 0]
    /\ trace = [p \in Parents |-> << >>]
    /\ result = [p \in Parents |-> NoResult]

\* One parent identity, any engine, and calls that can fail.
Init ==
    /\ active = {"p1"}
    /\ outputs = ChildLists
    /\ faulty = TRUE
    /\ InitStore
    /\ InitReconciler

\* ------------------------------------------------------------------ actions
\* Lines 128-132: the scheduler invokes Reconcile for p; a fresh context and
\* a fresh, empty parent object.
Reconcile(p) ==
    /\ p \in active
    /\ pc[p] \in {"idle", "done"}
    /\ pc' = [pc EXCEPT ![p] = "Get"]
    /\ ctxDone' = [ctxDone EXCEPT ![p] = FALSE]
    /\ cr' = [cr EXCEPT ![p] = NoParent]
    /\ childResources' = [childResources EXCEPT ![p] = << >>]
    /\ existing' = [existing EXCEPT ![p] = NoObject]
    /\ idx' = [idx EXCEPT ![p] = 0]
    /\ trace' = [trace EXCEPT ![p] = << >>]
    /\ result' = [result EXCEPT ![p] = NoResult]
    /\ UNCHANGED <<config, faulty, kubeParents, kubeChildren>>

\* A return statement of Reconcile.
Return(p, line, res, err) ==
    /\ result' = [result EXCEPT ![p] = [line |-> line, Requeue |-> res.Requeue,
                                        RequeueAfter |-> res.RequeueAfter,
                                        err |-> err]]
    /\ pc' = [pc EXCEPT ![p] = "done"]

\* Lines 133-137: r.kube.Get of the parent.
GetParent(p) ==
    /\ pc[p] = "Get"
    /\ \E fail \in CallFailures(p) :
         LET err == IF fail # Nil THEN fail
                    ELSE IF ~kubeParents[p].exists THEN errNotFound
                    ELSE Nil
         IN  /\ trace' = [trace EXCEPT ![p] = Append(@, Call("Get", 0, p, Outcome(err)))]
             /\ Deadline(p, fail)
             /\ IF err # Nil
                THEN /\ Return(p, 136, [Requeue |-> FALSE, RequeueAfter |-> 0],
                               Wrap(IgnoreNotFound(err), errGetResource))
                     /\ UNCHANGED cr
                ELSE /\ cr' = [cr EXCEPT ![p] = kubeParents[p]]
                     /\ pc' = [pc EXCEPT ![p] = "WasDeleted"]
                     /\ UNCHANGED result
    /\ UNCHANGED <<config, faulty, kubeParents, kubeChildren, childResources, existing, idx>>

\* Lines 139-143: a parent marked deleted ends the cycle.
CheckDeleted(p) ==
    /\ pc[p] = "WasDeleted"
    /\ IF WasDeleted(cr[p])
       THEN Return(p, 142, [Requeue |-> FALSE, RequeueAfter |-> 0], Nil)
       ELSE /\ pc' = [pc EXCEPT ![p] = "Run"]
            /\ UNCHANGED result
    /\ UNCHANGED <<config, faulty, kubeParents, kubeChildren, ctxDone, cr, childResources,
                   existing, idx, trace>>

\* Lines 145-147: r.templatingEngine.Run; a failure is put on the parent as an
\* error condition before the return of line 148.
RunTemplating(p) ==
    /\ pc[p] = "Run"
    /\ \/ /\ faulty
          /\ trace' = [trace EXCEPT ![p] = Append(@, Call("Run", 0, p, "err"))]
          /\ cr' = [cr EXCEPT ![p].conditions =
                SetConditions(@, ReconcileError(Wrap(errEngine, errTemplatingOperation)))]
          /\ pc' = [pc EXCEPT ![p] = "l148"]
          /\ UNCHANGED childResources
       \/ \E out \in outputs :
          /\ trace' = [trace EXCEPT ![p] = Append(@, Call("Run", 0, p, "ok"))]
          /\ childResources' = [childResources EXCEPT ![p] = out]
          /\ pc' = [pc EXCEPT ![p] = "Patch"]
          /\ UNCHANGED cr
    /\ UNCHANGED <<config, faulty, kubeParents, kubeChildren, ctxDone, existing, idx, result>>

\* (a variant of lines 151-155 that goes on to apply after a patcher failure)
RunPatchers_GoesOn(p) ==
    /\ pc[p] = "Patch"
    /\ \E out \in {"ok", "err"} :
         /\ trace' = [trace EXCEPT ![p] = Append(@, Call("Patchers", 0, p, out))]
         /\ childResources' = [childResources EXCEPT ![p] = PatcherChain(p, @)]
         /\ idx' = [idx EXCEPT ![p] = 1]
         /\ pc' = [pc EXCEPT ![p] = "Apply"]
         /\ UNCHANGED cr
    /\ UNCHANGED <<config, faulty, kubeParents, kubeChildren, ctxDone, existing, result>>

\* Lines 151-153: r.childResourcePatcher.Patch; a failure is put on the parent
\* as an error condition before the return of line 154.
RunPatchers(p) ==
    /\ pc[p] = "Patch"
    /\ \/ /\ faulty
          /\ trace' = [trace EXCEPT ![p] = Append(@, Call("Patchers", 0, p, "err"))]
          /\ cr' = [cr EXCEPT ![p].conditions =
                SetConditions(@, ReconcileError(Wrap(errPatcher, errChildResourcePatchers)))]
          /\ pc' = [pc EXCEPT ![p] = "l154"]
          /\ UNCHANGED <<childResources, idx>>
       \/ /\ trace' = [trace EXCEPT ![p] = Append(@, Call("Patchers", 0, p, "ok"))]
          /\ childResources' = [childResources EXCEPT ![p] = PatcherChain(p, @)]
          /\ idx' = [idx EXCEPT ![p] = 1]
          /\ pc' = [pc EXCEPT ![p] = "Apply"]
          /\ UNCHANGED cr
    /\ UNCHANGED <<config, faulty, kubeParents, kubeChildren, ctxDone, existing, result>>

\* (a variant that walks the list from its end)
o_Reversed(p) == childResources[p][Len(childResources[p]) + 1 - idx[p]]

\* The loop variable o of line 157.
o(p) == childResources[p][idx[p]]

\* (a variant that records the failure and goes on with the next child)
ApplyFailed_GoesOn(p, err) ==
    /\ cr' = [cr EXCEPT ![p].conditions =
          SetConditions(@, ReconcileError(ApplyLabel(err, childResources[p][idx[p]])))]
    /\ idx' = [idx EXCEPT ![p] = @ + 1]
    /\ pc' = [pc EXCEPT ![p] = "Apply"]
    /\ existing' = [existing EXCEPT ![p] = NoObject]

\* Lines 158-159: Apply returned err for child o; the error condition is set
\* and the loop is left for the return of line 160.
ApplyFailed(p, err) ==
    /\ cr' = [cr EXCEPT ![p].conditions =
          SetConditions(@, ReconcileError(ApplyLabel(err, o(p))))]
    /\ pc' = [pc EXCEPT ![p] = "l160"]
    /\ existing' = [existing EXCEPT ![p] = NoObject]
    /\ UNCHANGED idx

\* Lines 157-158: Apply returned nil for child o; the loop moves on.
ApplySucceeded(p) ==
    /\ idx' = [idx EXCEPT ![p] = @ + 1]
    /\ pc' = [pc EXCEPT ![p] = "Apply"]
    /\ existing' = [existing EXCEPT ![p] = NoObject]
    /\ UNCHANGED cr

\* (a variant of lines 171-177 that creates whenever the Get did not fail)
ApplyGet_AlwaysCreate(p) ==
    /\ pc[p] = "Apply"
    /\ idx[p] <= Len(childResources[p])
    /\ \E fail \in CallFailures(p) :
         LET err == IF fail # Nil THEN fail
                    ELSE IF ~kubeChildren[o(p).name].exists THEN errNotFound
                    ELSE Nil
         IN  /\ trace' = [trace EXCEPT ![p] =
                    Append(@, Call("Get", idx[p], o(p).name, Outcome(err)))]
             /\ Deadline(p, fail)
             /\ IF IsNotFound(err) \/ err = Nil
                THEN /\ pc' = [pc EXCEPT ![p] = "Create"]
                     /\ UNCHANGED <<cr, existing, idx>>
                ELSE ApplyFailed(p, Wrap(err, errGetChildResource))
    /\ UNCHANGED <<config, faulty, kubeParents, kubeChildren, childResources, result>>

\* Lines 170-177: Apply's kube.Get of the child into existing.
ApplyGet(p) ==
    /\ pc[p] = "Apply"
    /\ idx[p] <= Len(childResources[p])
    /\ \E fail \in CallFailures(p) :
         LET err == IF fail # Nil THEN fail
                    ELSE IF ~kubeChildren[o(p).name].exists THEN errNotFound
                    ELSE Nil
         IN  /\ trace' = [trace EXCEPT ![p] =
                    Append(@, Call("Get", idx[p], o(p).name, Outcome(err)))]
             /\ Deadline(p, fail)
             /\ IF IsNotFound(err)
                THEN /\ pc' = [pc EXCEPT ![p] = "Create"]
                     /\ UNCHANGED <<cr, existing, idx>>
                ELSE IF err # Nil
                THEN ApplyFailed(p, Wrap(err, errGetChildResource))
                ELSE /\ existing' = [existing EXCEPT ![p] =
                            [name |-> o(p).name, fields |-> kubeChildren[o(p).name].fields]]
                     /\ pc' = [pc EXCEPT ![p] = "MarshalPatch"]
                     /\ UNCHANGED <<cr, idx>>
    /\ UNCHANGED <<config, faulty, kubeParents, kubeChildren, childResources, result>>

\* (a variant of line 173 whose Create writes over an object that exists)
ApplyCreate_Upsert(p) ==
    /\ pc[p] = "Create"
    /\ \E fail \in CallFailures(p) :
         /\ trace' = [trace EXCEPT ![p] =
                Append(@, Call("Create", idx[p], o(p).name, Outcome(fail)))]
         /\ Deadline(p, fail)
         /\ IF fail = Nil
            THEN /\ kubeChildren' = [kubeChildren EXCEPT ![o(p).name] =
                        [exists |-> TRUE, fields |-> o(p).fields]]
                 /\ ApplySucceeded(p)
            ELSE /\ ApplyFailed(p, Wrap(fail, errCreateChildResource))
                 /\ UNCHANGED kubeChildren
    /\ UNCHANGED <<config, faulty, kubeParents, childResources, result>>

\* (a variant of line 173 that returns the error of the Create as it came)
ApplyCreate_Unwrapped(p) ==
    /\ pc[p] = "Create"
    /\ \E fail \in CallFailures(p) :
         LET err == IF fail # Nil THEN fail
                    ELSE IF kubeChildren[o(p).name].exists THEN errAlreadyExists
                    ELSE Nil
         IN  /\ trace' = [trace EXCEPT ![p] =
                    Append(@, Call("Create", idx[p], o(p).name, Outcome(err)))]
             /\ Deadline(p, fail)
             /\ IF err = Nil
                THEN /\ kubeChildren' = [kubeChildren EXCEPT ![o(p).name] =
                            [exists |-> TRUE, fields |-> o(p).fields]]
                     /\ ApplySucceeded(p)
                ELSE /\ ApplyFailed(p, err)
                     /\ UNCHANGED kubeChildren
    /\ UNCHANGED <<config, faulty, kubeParents, childResources, result>>

\* Line 173: Apply's kube.Create of the child as given.
ApplyCreate(p) ==
    /\ pc[p] = "Create"
    /\ \E fail \in CallFailures(p) :
         LET err == IF fail # Nil THEN fail
                    ELSE IF kubeChildren[o(p).name].exists THEN errAlreadyExists
                    ELSE Nil
         IN  /\ trace' = [trace EXCEPT ![p] =
                    Append(@, Call("Create", idx[p], o(p).name, Outcome(err)))]
             /\ Deadline(p, fail)
             /\ IF err = Nil
                THEN /\ kubeChildren' = [kubeChildren EXCEPT ![o(p).name] =
                            [exists |-> TRUE, fields |-> o(p).fields]]
                     /\ ApplySucceeded(p)
                ELSE /\ ApplyFailed(p, Wrap(err, errCreateChildResource))
                     /\ UNCHANGED kubeChildren
    /\ UNCHANGED <<config, faulty, kubeParents, childResources, result>>

\* Lines 178-182: json.Marshal of the child, then kube.Patch of existing with
\* the result as a merge patch; neither error is wrapped.
ApplyPatch(p) ==
    /\ pc[p] = "MarshalPatch"
    /\ \/ /\ trace' = [trace EXCEPT ![p] =
                Append(@, Call("Marshal", idx[p], o(p).name, "err"))]
          /\ ApplyFailed(p, errMarshal)
          /\ UNCHANGED <<kubeChildren, ctxDone>>
       \/ \E fail \in CallFailures(p) :
            LET target == existing[p].name
                err == IF fail # Nil THEN fail
                       ELSE IF ~kubeChildren[target].exists THEN errNotFound
                       ELSE Nil
            IN  /\ trace' = [trace EXCEPT ![p] =
                       Append(Append(@, Call("Marshal", idx[p], o(p).name, "ok")),
                              Call("Patch", idx[p], target, Outcome(err)))]
                /\ Deadline(p, fail)
                /\ IF err = Nil
                   THEN /\ kubeChildren' = [kubeChildren EXCEPT ![target].fields =
                               MergePatch(@, Marshal(o(p)))]
                        /\ ApplySucceeded(p)
                   ELSE /\ ApplyFailed(p, err)
                        /\ UNCHANGED kubeChildren
    /\ UNCHANGED <<config, faulty, kubeParents, childResources, result>>

\* (a variant of line 164 that first deletes the stored children the list of
\* this cycle does not name)
ReportSuccess_Prunes(p) ==
    /\ pc[p] = "Apply"
    /\ idx[p] > Len(childResources[p])
    /\ kubeChildren' = [n \in Names |->
          IF \E k \in 1..Len(childResources[p]) : childResources[p][k].name = n
          THEN kubeChildren[n] ELSE Absent]
    /\ cr' = [cr EXCEPT ![p].conditions = SetConditions(@, ReconcileSuccess)]
    /\ pc' = [pc EXCEPT ![p] = "l165"]
    /\ UNCHANGED <<config, faulty, kubeParents, ctxDone, childResources,
                   existing, idx, trace, result>>

\* Line 164: every child applied; the success condition is set.
ReportSuccess(p) ==
    /\ pc[p] = "Apply"
    /\ idx[p] > Len(childResources[p])
    /\ cr' = [cr EXCEPT ![p].conditions = SetConditions(@, ReconcileSuccess)]
    /\ pc' = [pc EXCEPT ![p] = "l165"]
    /\ UNCHANGED <<config, faulty, kubeParents, kubeChildren, ctxDone, childResources,
                   existing, idx, trace, result>>

\* (a variant that only logs the error of the status update)
StatusUpdateAndReturn_Swallows(p, line, wait) ==
    /\ \E fail \in CallFailures(p) :
         LET err == IF fail # Nil THEN fail
                    ELSE IF ~kubeParents[p].exists THEN errNotFound
                    ELSE Nil
         IN  /\ trace' = [trace EXCEPT ![p] = Append(@,
                    Call("Status.Update", 0, p, Outcome(err)))]
             /\ Deadline(p, fail)
             /\ kubeParents' = IF err = Nil
                               THEN [kubeParents EXCEPT ![p].conditions = cr[p].conditions]
                               ELSE kubeParents
             /\ Return(p, line, [Requeue |-> FALSE, RequeueAfter |-> wait], Nil)
    /\ UNCHANGED <<config, faulty, kubeChildren, cr, childResources, existing, idx>>

\* r.kube.Status().Update of the parent and the return that carries its error.
StatusUpdateAndReturn(p, line, wait) ==
    /\ \E fail \in CallFailures(p) :
         LET err == IF fail # Nil THEN fail
                    ELSE IF ~kubeParents[p].exists THEN errNotFound
                    ELSE Nil
         IN  /\ trace' = [trace EXCEPT ![p] = Append(@,
                    Call("Status.Update", 0, p, Outcome(err)))]
             /\ Deadline(p, fail)
             /\ kubeParents' = IF err = Nil
                               THEN [kubeParents EXCEPT ![p].conditions = cr[p].conditions]
                               ELSE kubeParents
             /\ Return(p, line, [Requeue |-> FALSE, RequeueAfter |-> wait],
                       Wrap(err, errUpdateResourceStatus))
    /\ UNCHANGED <<config, faulty, kubeChildren, cr, childResources, existing, idx>>

\* (a variant of line 148 that answers with the long wait)
ReturnTemplatingFailure_LongWait(p) ==
    /\ pc[p] = "l148"
    /\ StatusUpdateAndReturn(p, 148, longWait)

\* Line 148: the return after a templating failure.
ReturnTemplatingFailure(p) ==
    /\ pc[p] = "l148"
    /\ StatusUpdateAndReturn(p, 148, shortWait)

\* (a variant of line 154 that returns an empty result)
ReturnPatchersFailure_NoRequeue(p) ==
    /\ pc[p] = "l154"
    /\ StatusUpdateAndReturn(p, 154, 0)

\* Line 154: the return after a patcher failure.
ReturnPatchersFailure(p) ==
    /\ pc[p] = "l154"
    /\ StatusUpdateAndReturn(p, 154, shortWait)

\* (a variant of line 160 that returns the error of Apply, as the condition
\* holds it, whenever the status update raises none)
ReturnApplyFailure_Surfaces(p) ==
    /\ pc[p] = "l160"
    /\ \E fail \in CallFailures(p) :
         LET err == IF fail # Nil THEN fail
                    ELSE IF ~kubeParents[p].exists THEN errNotFound
                    ELSE Nil
             conds == cr[p].conditions
             applyErr == conds[CHOOSE k \in 1..Len(conds) : conds[k].type = "Synced"].message
         IN  /\ trace' = [trace EXCEPT ![p] = Append(@,
                    Call("Status.Update", 0, p, Outcome(err)))]
             /\ Deadline(p, fail)
             /\ kubeParents' = IF err = Nil
                               THEN [kubeParents EXCEPT ![p].conditions = cr[p].conditions]
                               ELSE kubeParents
             /\ Return(p, 160, [Requeue |-> FALSE, RequeueAfter |-> shortWait],
                       IF err = Nil THEN applyErr ELSE Wrap(err, errUpdateResourceStatus))
    /\ UNCHANGED <<config, faulty, kubeChildren, cr, childResources, existing, idx>>

\* (a variant of line 160 that returns without writing the status)
ReturnApplyFailure_NoStatus(p) ==
    /\ pc[p] = "l160"
    /\ Return(p, 160, [Requeue |-> FALSE, RequeueAfter |-> shortWait], Nil)
    /\ UNCHANGED <<config, faulty, kubeParents, kubeChildren, ctxDone, cr, childResources,
                   existing, idx, trace>>

\* Line 160: the return after a child failed to apply.
ReturnApplyFailure(p) ==
    /\ pc[p] = "l160"
    /\ StatusUpdateAndReturn(p, 160, shortWait)

\* Line 165: the return after success.
ReturnSuccess(p) ==
    /\ pc[p] = "l165"
    /\ StatusUpdateAndReturn(p, 165, longWait)

Next == \E p \in Parents :
    \/ Reconcile(p)
    \/ GetParent(p)
    \/ CheckDeleted(p)
    \/ RunTemplating(p)
    \/ RunPatchers(p)
    \/ ApplyGet(p)
    \/ ApplyCreate(p)
    \/ ApplyPatch(p)
    \/ ReportSuccess(p)
    \/ ReturnTemplatingFailure(p)
    \/ ReturnPatchersFailure(p)
    \/ ReturnApplyFailure(p)
    \/ ReturnSuccess(p)

Spec == Init /\ [][Next]_vars

\* ------------------------------------------------ cycle after cycle
\* Lists in which no two children have the same identity.
DistinctLists ==
    {l \in ChildLists : \A j, k \in 1..Len(l) : l[j].name = l[k].name => j = k}

\* The waits of WaitOptions, or a short wait of zero given to WithShortWait.
LiveWaitOptions == WaitOptions \cup {<<0, defaultLongWait>>}

\* One parent, in the store and not marked deleted, and an engine that derives
\* the same list from it in every cycle.
InitLive ==
    /\ active = {"p1"}
    /\ \E l \in DistinctLists : outputs = {l}
    /\ faulty = TRUE
    /\ InitStore
    /\ \A p \in active : kubeParents[p].exists /\ ~kubeParents[p].deleted
    /\ \E w \in LiveWaitOptions : shortWait = w[1] /\ longWait = w[2]
    /\ pc = [p \in Parents |-> "idle"]
    /\ ctxDone = [p \in Parents |-> FALSE]
    /\ cr = [p \in Parents |-> NoParent]
    /\ childResources = [p \in Parents |-> << >>]
    /\ existing = [p \in Parents |-> NoObject]
    /\ idx = [p \in Parents |-> 0]
    /\ trace = [p \in Parents |-> << >>]
    /\ result = [p \in Parents |-> NoResult]

\* The engine, the patchers and the store's calls stop failing, for good.
Heal ==
    /\ faulty
    /\ faulty' = FALSE
    /\ UNCHANGED <<config, kubeParents, kubeChildren, pc, ctxDone, cr,
                   childResources, existing, idx, trace, result>>

\* The scheduler owes p a cycle: its first, or the one the last result asks
\* for by its error or its requeue directive.
Requeued(p) ==
    \/ pc[p] = "idle"
    \/ /\ pc[p] = "done"
       /\ \/ result[p].err # Nil
          \/ result[p].Requeue
          \/ result[p].RequeueAfter > 0

Requeue(p) == Requeued(p) /\ Reconcile(p)

\* A cycle under way goes on: every step but the invocation.
Step(p) ==
    \/ GetParent(p)
    \/ CheckDeleted(p)
    \/ RunTemplating(p)
    \/ RunPatchers(p)
    \/ ApplyGet(p)
    \/ ApplyCreate(p)
    \/ ApplyPatch(p)
    \/ ReportSuccess(p)
    \/ ReturnTemplatingFailure(p)
    \/ ReturnPatchersFailure(p)
    \/ ReturnApplyFailure(p)
    \/ ReturnSuccess(p)

NextLive ==
    \/ Next
    \/ Heal

\* Reconcile runs to its return, and the scheduler honours every result.
SpecLive ==
    /\ InitLive
    /\ [][NextLive]_vars
    /\ \A p \in Parents : WF_vars(Step(p)) /\ WF_vars(Requeue(p))

\* ------------------------------------------------- two parents, one child
\* The list of an engine that derives the one child A from every parent.
SharedChildLists ==
    {<<c>> : c \in {t \in TemplatedObjects : t.name = "A" /\ t.fields["spec"] = "v1"}}

\* Two parent identities, both in the store, reconciled by concurrent
\* workers with the default waits: their cycles interleave call by call on
\* the one store, which holds no child yet.
InitConcurrent ==
    /\ active = Parents
    /\ outputs = SharedChildLists
    /\ faulty = TRUE
    /\ kubeParents = [p \in Parents |->
                         [exists |-> TRUE, deleted |-> FALSE, conditions |-> << >>]]
    /\ kubeChildren = [n \in Names |-> Absent]
    /\ shortWait = defaultShortWait
    /\ longWait = defaultLongWait
    /\ pc = [p \in Parents |-> "idle"]
    /\ ctxDone = [p \in Parents |-> FALSE]
    /\ cr = [p \in Parents |-> NoParent]
    /\ childResources = [p \in Parents |-> << >>]
    /\ existing = [p \in Parents |-> NoObject]
    /\ idx = [p \in Parents |-> 0]
    /\ trace = [p \in Parents |-> << >>]
    /\ result = [p \in Parents |-> NoResult]

SpecConcurrent == InitConcurrent /\ [][Next]_vars

\* ------------------------------------------------------- reading the trace
Done(p) == pc[p] = "done"

Has(p, c) == \E k \in 1..Len(trace[p]) : trace[p][k] = c

\* Positions of the trace of p whose call is one of ops.
Entries(p, ops) == {k \in 1..Len(trace[p]) : trace[p][k].op \in ops}

\* Positions of the trace of p that belong to the Apply of some child.
ChildEntries(p) == {k \in 1..Len(trace[p]) : trace[p][k].idx >= 1}

LastCall(p) == trace[p][Len(trace[p])]

ErrorConditions(conds) == {k \in 1..Len(conds) : conds[k].reason = "ReconcileError"}

\* The status of p holds exactly one error condition, and label opens its message.
OneErrorCondition(conds, label) ==
    /\ Cardinality(ErrorConditions(conds)) = 1
    /\ \A k \in ErrorConditions(conds) :
          /\ conds[k].status = "False"
          /\ Len(conds[k].message) >= 1
          /\ conds[k].message[1] = label

\* The status holds an error condition whose message opens with label.
HasErrorCondition(conds, label) ==
    \E k \in ErrorConditions(conds) :
        /\ conds[k].status = "False"
        /\ Len(conds[k].message) >= 1
        /\ conds[k].message[1] = label

NoRequeueNoError(res) ==
    /\ res.err = Nil
    /\ res.Requeue = FALSE
    /\ res.RequeueAfter = 0

\* ------------------------------------------------------------------ claims
\* C1: when the Get of the parent reports not-found, Reconcile returns a nil
\* error and a result without requeue, and that Get is the only call made.
C1_NotFoundEndsCycle ==
    \A p \in Parents :
        Has(p, Call("Get", 0, p, "notfound")) =>
            /\ Done(p)
            /\ NoRequeueNoError(result[p])
            /\ trace[p] = <<Call("Get", 0, p, "notfound")>>

C1_Witness ==
    \E p \in Parents :
        /\ Done(p)
        /\ result[p].line = 136
        /\ ~kubeParents[p].exists
        /\ Has(p, Call("Get", 0, p, "notfound"))

\* C2: when the parent is loaded and carries a deletion marker, Reconcile
\* returns a nil error and no requeue; the cycle makes no call after the Get:
\* no engine run, no patcher run, no create, patch or status update.
C2_DeletedEndsCycle ==
    \A p \in Parents :
        (Has(p, Call("Get", 0, p, "ok")) /\ cr[p].deleted /\ pc[p] # "WasDeleted") =>
            /\ Done(p)
            /\ NoRequeueNoError(result[p])
            /\ trace[p] = <<Call("Get", 0, p, "ok")>>

C2_Witness ==
    \E p \in Parents :
        /\ Done(p)
        /\ result[p].line = 142
        /\ kubeParents[p].deleted
        /\ cr[p].deleted

\* C3: when the templating engine fails, the status of the parent the cycle
\* holds has exactly one error condition, labelled "templating operation
\* failed"; the cycle goes straight to the status update: no patcher run and
\* no child Get, Create or Patch; the result asks for a requeue after the
\* short wait, and a status update that succeeds stores that status.
C3_TemplatingFailure ==
    \A p \in Parents :
        Has(p, Call("Run", 0, p, "err")) =>
            /\ OneErrorCondition(cr[p].conditions, errTemplatingOperation)
            /\ Entries(p, {"Patchers"}) = {}
            /\ ChildEntries(p) = {}
            /\ pc[p] \in {"l148", "done"}
            /\ Done(p) =>
                /\ result[p].RequeueAfter = shortWait
                /\ LastCall(p).op = "Status.Update"
                /\ LastCall(p).out = "ok" =>
                      kubeParents[p].conditions = cr[p].conditions

\* The engine failed, and the status update stored the one error condition.
C3_Witness ==
    \E p \in Parents :
        /\ Done(p)
        /\ Has(p, Call("Run", 0, p, "err"))
        /\ LastCall(p) = Call("Status.Update", 0, p, "ok")
        /\ result[p].RequeueAfter = shortWait
        /\ OneErrorCondition(kubeParents[p].conditions, errTemplatingOperation)

\* C4: when the patcher chain fails, no Apply is made (no child Get, Create or
\* Patch), the status update is called exactly once with an error condition
\* labelled "child resource patchers failed", which is not the templating
\* label, and the result asks for a requeue after the short wait.
C4_PatchersFailure ==
    \A p \in Parents :
        Has(p, Call("Patchers", 0, p, "err")) =>
            /\ ChildEntries(p) = {}
            /\ HasErrorCondition(cr[p].conditions, errChildResourcePatchers)
            /\ ~HasErrorCondition(cr[p].conditions, errTemplatingOperation)
            /\ pc[p] \in {"l154", "done"}
            /\ Cardinality(Entries(p, {"Status.Update"})) = IF Done(p) THEN 1 ELSE 0
            /\ Done(p) =>
                /\ result[p].RequeueAfter = shortWait
                /\ LastCall(p).out = "ok" =>
                      kubeParents[p].conditions = cr[p].conditions

C4_Witness ==
    \E p \in Parents :
        /\ Done(p)
        /\ Has(p, Call("Patchers", 0, p, "err"))
        /\ Cardinality(Entries(p, {"Status.Update"})) = 1
        /\ result[p].RequeueAfter = shortWait
        /\ HasErrorCondition(kubeParents[p].conditions, errChildResourcePatchers)

\* ----------------------------------------------------- reading the Applies
WriteOps == {"Create", "Patch"}

\* Positions of the trace of p that belong to the Apply of child i.
EntriesOf(p, i, ops) == {k \in Entries(p, ops) : trace[p][k].idx = i}

\* The calls of the Apply of child i of p, in the order made.
ChildCalls(p, i) == SelectSeq(trace[p], LAMBDA c : c.idx = i)

\* A call that made its Apply return an error.
IsFailure(c) ==
    \/ c.out = "err"
    \/ c.op = "Create" /\ c.out = "exists"
    \/ c.op = "Patch" /\ c.out = "notfound"

FailedEntries(p) == {k \in ChildEntries(p) : IsFailure(trace[p][k])}

\* The child whose Apply failed: K + 1 of claim C5.
FailedChild(p) == trace[p][CHOOSE k \in FailedEntries(p) : TRUE].idx

\* The create and patch calls of p, in the order made.
Writes(p) == SelectSeq(trace[p], LAMBDA c : c.op \in WriteOps)

\* The Apply of child i has returned.
ApplyReturned(p, i) ==
    /\ i >= 1
    /\ \/ i < idx[p]
       \/ i = idx[p] /\ (pc[p] = "l160" \/ (Done(p) /\ result[p].line = 160))

HasSuccessCondition(conds) ==
    \E k \in 1..Len(conds) :
        /\ conds[k].reason = "ReconcileSuccess"
        /\ conds[k].status = "True"

\* C5 as stated: after the first K children applied and child K+1 failed,
\* exactly K create/patch calls were made, none for a child after K+1.
C5_Original ==
    \A p \in Parents :
        FailedEntries(p) # {} =>
            /\ Cardinality(Entries(p, WriteOps)) = FailedChild(p) - 1
            /\ \A k \in ChildEntries(p) : trace[p][k].idx <= FailedChild(p)

\* C5 amended: after the first K children applied and child K+1 failed, each
\* of the first K children has exactly one create/patch call, a successful
\* one; child K+1 has at most one, the failed one (none if its Get or its
\* serialisation failed); the failed call is the last call of any child, so
\* no child after K+1 is got, created or patched.
C5_FailFast ==
    \A p \in Parents :
        LET failed == FailedEntries(p)
            writes == Entries(p, WriteOps)
            k1 == FailedChild(p)
        IN  failed # {} =>
            /\ Cardinality(failed) = 1
            /\ \A i \in 1..(k1 - 1) :
                  \E w \in writes :
                      /\ trace[p][w].idx = i
                      /\ trace[p][w].out = "ok"
                      /\ \A v \in writes : trace[p][v].idx = i => v = w
            /\ \A v, w \in writes :
                  (trace[p][v].idx = k1 /\ trace[p][w].idx = k1) =>
                      v = w /\ w \in failed
            /\ \A k \in ChildEntries(p) :
                  /\ trace[p][k].idx <= k1
                  /\ \A f \in failed : k <= f
            /\ Cardinality({w \in writes : trace[p][w].out = "ok"}) = k1 - 1

\* One child applied and the next failed in its Create or Patch: K = 1 and
\* two create/patch calls.
C5_Witness ==
    \E p \in Parents :
        /\ Done(p)
        /\ result[p].line = 160
        /\ FailedEntries(p) # {}
        /\ FailedChild(p) >= 2
        /\ Cardinality(Entries(p, WriteOps)) = FailedChild(p)

\* The cycle went through templating and patching, and no Apply failed.
AllApplied(p) ==
    /\ Done(p)
    /\ Has(p, Call("Patchers", 0, p, "ok"))
    /\ FailedEntries(p) = {}

\* The children were written one by one in the order of the patched list.
AppliedInOrder(p) ==
    /\ Len(Writes(p)) = Len(childResources[p])
    /\ \A k \in 1..Len(Writes(p)) :
          /\ Writes(p)[k].idx = k
          /\ Writes(p)[k].name = childResources[p][k].name
          /\ Writes(p)[k].out = "ok"
    /\ \A a, b \in ChildEntries(p) : a < b => trace[p][a].idx <= trace[p][b].idx

\* C6 as stated: when every child applied, the children were written in the
\* order of the patched list, the success condition is set, the status is
\* written once, and the result is the long wait with a nil error.
C6_Original ==
    \A p \in Parents :
        AllApplied(p) =>
            /\ AppliedInOrder(p)
            /\ HasSuccessCondition(cr[p].conditions)
            /\ Cardinality(Entries(p, {"Status.Update"})) = 1
            /\ result[p].RequeueAfter = longWait
            /\ result[p].err = Nil

\* C6 amended: as stated, but the returned error is nil only when the status
\* update succeeded (then the store holds the success condition); when the
\* update fails the result still carries the long wait and the error is the
\* update's, under the status label.
C6_SuccessPath ==
    \A p \in Parents :
        AllApplied(p) =>
            /\ AppliedInOrder(p)
            /\ HasSuccessCondition(cr[p].conditions)
            /\ Cardinality(Entries(p, {"Status.Update"})) = 1
            /\ LastCall(p).op = "Status.Update"
            /\ result[p].RequeueAfter = longWait
            /\ result[p].Requeue = FALSE
            /\ IF LastCall(p).out = "ok"
               THEN /\ result[p].err = Nil
                    /\ HasSuccessCondition(kubeParents[p].conditions)
               ELSE /\ result[p].err # Nil
                    /\ result[p].err[1] = errUpdateResourceStatus

\* Neither A nor B was in the store: create A, then create B, then success.
C6_Witness ==
    \E p \in Parents :
        /\ AllApplied(p)
        /\ Writes(p) = <<Call("Create", 1, "A", "ok"), Call("Create", 2, "B", "ok")>>
        /\ LastCall(p) = Call("Status.Update", 0, p, "ok")
        /\ HasSuccessCondition(kubeParents[p].conditions)
        /\ result[p].RequeueAfter = longWait
        /\ result[p].err = Nil

\* What the Get of child i reported, once it was made.
GotOutcome(p, i) == trace[p][CHOOSE k \in EntriesOf(p, i, {"Get"}) : TRUE].out

Count(p, i, op) == Cardinality(EntriesOf(p, i, {op}))

\* The scenario of C7: children A then B, the store had A and lacked B, and
\* no call of the cycle failed.
ScenarioPatchCreate(p) ==
    /\ Done(p)
    /\ Len(childResources[p]) = 2
    /\ childResources[p][1].name = "A"
    /\ childResources[p][2].name = "B"
    /\ Has(p, Call("Get", 1, "A", "ok"))
    /\ Has(p, Call("Get", 2, "B", "notfound"))
    /\ \A k \in 1..Len(trace[p]) : trace[p][k].out # "err"

ScenarioOutcome(p) ==
    /\ Writes(p) = <<Call("Patch", 1, "A", "ok"), Call("Create", 2, "B", "ok")>>
    /\ HasSuccessCondition(cr[p].conditions)
    /\ HasSuccessCondition(kubeParents[p].conditions)

\* C7 as stated: every Apply makes exactly one Get; then one Create and no
\* Patch if the Get reported not-found, one Patch and no Create if it found
\* the object, and no write if the Get failed otherwise.
C7_Original ==
    \A p \in Parents : \A i \in 1..Len(childResources[p]) :
        ApplyReturned(p, i) =>
            /\ Count(p, i, "Get") = 1
            /\ GotOutcome(p, i) = "notfound" =>
                  Count(p, i, "Create") = 1 /\ Count(p, i, "Patch") = 0
            /\ GotOutcome(p, i) = "ok" =>
                  Count(p, i, "Patch") = 1 /\ Count(p, i, "Create") = 0
            /\ GotOutcome(p, i) = "err" =>
                  Count(p, i, "Create") = 0 /\ Count(p, i, "Patch") = 0

\* C7 amended: as stated, but after a Get that finds the object the one Patch
\* is made only if the child serialises; if json.Marshal fails Apply makes no
\* write. In the scenario (store has A, lacks B, no call fails) the cycle
\* patches A, creates B and ends with the success condition.
C7_GetThenCreateOrPatch ==
    \A p \in Parents :
        /\ \A i \in 1..Len(childResources[p]) :
              ApplyReturned(p, i) =>
                LET calls == ChildCalls(p, i)
                    ops == [k \in 1..Len(calls) |-> calls[k].op]
                    got == calls[1].out
                IN  /\ Len(calls) >= 1
                    /\ ops[1] = "Get"
                    /\ got = "notfound" => ops = <<"Get", "Create">>
                    /\ got = "ok" =>
                          \/ ops = <<"Get", "Marshal", "Patch">> /\ calls[2].out = "ok"
                          \/ ops = <<"Get", "Marshal">> /\ calls[2].out = "err"
                    /\ got = "err" => ops = <<"Get">>
        /\ ScenarioPatchCreate(p) => ScenarioOutcome(p)

\* The scenario happened, and the patch repaired the spec A had in the store.
C7_Witness ==
    \E p \in Parents :
        /\ ScenarioPatchCreate(p)
        /\ ScenarioOutcome(p)
        /\ kubeChildren["A"].fields["spec"] = childResources[p][1].fields["spec"]
        /\ "annot" \in DOMAIN kubeChildren["A"].fields
        /\ "annot" \notin DOMAIN kubeChildren["B"].fields

\* Child i of p is the very object that was applied just before it.
SameAsPrevious(p, i) ==
    /\ i >= 2
    /\ i <= Len(childResources[p])
    /\ childResources[p][i] = childResources[p][i - 1]

\* No call of the Apply of child i failed for a reason of its own.
NoFault(p, i) == \A k \in EntriesOf(p, i, {"Get", "Create", "Marshal", "Patch"}) :
                    trace[p][k].out # "err"

\* The second of two Applies of one object is a Get that finds it and one
\* Patch, after one Create if the store lacked the object before the first.
SecondApplyPatches(p) ==
    \A i \in 1..Len(childResources[p]) :
        (SameAsPrevious(p, i) /\ ApplyReturned(p, i) /\ NoFault(p, i)) =>
            /\ ChildCalls(p, i) = <<Call("Get", i, childResources[p][i].name, "ok"),
                                    Call("Marshal", i, childResources[p][i].name, "ok"),
                                    Call("Patch", i, childResources[p][i].name, "ok")>>
            /\ Count(p, i, "Create") = 0
            /\ Count(p, i, "Patch") = 1
            /\ Has(p, Call("Get", i - 1, childResources[p][i].name, "notfound")) =>
                  ChildCalls(p, i - 1) =
                      <<Call("Get", i - 1, childResources[p][i].name, "notfound"),
                        Call("Create", i - 1, childResources[p][i].name, "ok")>>

\* The step in which the Apply of a child equal to the previous one returns
\* nil leaves the store as it was.
RepeatedApplyIsNoOp(p) ==
    (/\ pc[p] \in {"Create", "MarshalPatch"}
     /\ pc'[p] = "Apply"
     /\ SameAsPrevious(p, idx[p])) =>
        /\ pc[p] = "MarshalPatch"
        /\ kubeChildren' = kubeChildren

\* C8: Apply is idempotent. Applying one object twice in a row, with no call
\* failing, to a store that lacked it makes one Create and then one Patch; the
\* Patch, and that of every further Apply of the same object, leaves the
\* stored object as it was.
C8_ApplyIdempotent ==
    [][\A p \in Parents : SecondApplyPatches(p)' /\ RepeatedApplyIsNoOp(p)]_vars

\* The same object twice: created by the first Apply, patched by the second.
C8_Witness ==
    \E p \in Parents :
        /\ SameAsPrevious(p, 2)
        /\ ApplyReturned(p, 2)
        /\ ChildCalls(p, 1) = <<Call("Get", 1, childResources[p][1].name, "notfound"),
                                Call("Create", 1, childResources[p][1].name, "ok")>>
        /\ Count(p, 2, "Patch") = 1
        /\ NoFault(p, 2)
        /\ kubeChildren[childResources[p][2].name].fields = childResources[p][2].fields

StatusUpdates(p) == Cardinality(Entries(p, {"Status.Update"}))

\* C9 as stated: every cycle, whatever its branch, calls the status update
\* exactly once.
C9_Original ==
    \A p \in Parents : Done(p) => StatusUpdates(p) = 1

\* C9 amended: a cycle that returns at line 148, 154, 160 or 165 (templating
\* failure, patcher failure, apply failure, success) calls the status update
\* exactly once, as its last call; a cycle that returns at line 136 or 142
\* (parent not found, parent Get failed, parent deleted) never calls it.
C9_StatusWrittenOnce ==
    \A p \in Parents :
        /\ ~Done(p) => StatusUpdates(p) = 0
        /\ Done(p) =>
            /\ result[p].line \in {136, 142, 148, 154, 160, 165}
            /\ result[p].line \in {136, 142} => StatusUpdates(p) = 0
            /\ result[p].line \in {148, 154, 160, 165} =>
                  /\ StatusUpdates(p) = 1
                  /\ LastCall(p).op = "Status.Update"

C9_Witness ==
    \E p \in Parents :
        /\ Done(p)
        /\ result[p].line = 160
        /\ StatusUpdates(p) = 1
        /\ FailedEntries(p) # {}

\* C10: on the four branches that write the status, Reconcile returns a nil
\* error exactly when the status update succeeded; when the update fails the
\* returned error is the update's error under the label "could not update
\* status of the parent resource", whatever the branch, next to the branch's
\* requeue directive.
C10_StatusErrorReturned ==
    \A p \in Parents :
        (Done(p) /\ result[p].line \in {148, 154, 160, 165}) =>
            /\ LastCall(p).op = "Status.Update"
            /\ (result[p].err = Nil) <=> (LastCall(p).out = "ok")
            /\ LastCall(p).out # "ok" =>
                  /\ result[p].err[1] = errUpdateResourceStatus
                  /\ Tail(result[p].err) \in {errStore, errDeadline, errNotFound}
            /\ result[p].RequeueAfter =
                  IF result[p].line = 165 THEN longWait ELSE shortWait

\* A failure met while recording a failure: the apply failed, then the update.
C10_Witness ==
    \E p \in Parents :
        /\ Done(p)
        /\ result[p].line = 160
        /\ LastCall(p) = Call("Status.Update", 0, p, "err")
        /\ result[p].err = <<errUpdateResourceStatus>> \o errStore
        /\ result[p].RequeueAfter = shortWait

\* ------------------------------------------------------ the classes of error
\* The label of the condition a business-logic failure leaves, by the line of
\* the return it leads to.
BusinessLabel(line) ==
    IF line = 148 THEN errTemplatingOperation
    ELSE IF line = 154 THEN errChildResourcePatchers
    ELSE errApply

\* The call whose failure led to the return at line.
BusinessFailure(p, line) ==
    IF line = 148 THEN Has(p, Call("Run", 0, p, "err"))
    ELSE IF line = 154 THEN Has(p, Call("Patchers", 0, p, "err"))
    ELSE FailedEntries(p) # {}

\* The message of the error condition the cycle of p has set.
ConditionMessage(p) ==
    cr[p].conditions[CHOOSE k \in ErrorConditions(cr[p].conditions) : TRUE].message

\* What the store's calls fail with.
StoreErrors == {errStore, errDeadline, errNotFound, errAlreadyExists}

\* err is an error of the status update, under its label.
IsStatusError(err) ==
    /\ Len(err) >= 2
    /\ err[1] = errUpdateResourceStatus
    /\ Tail(err) \in StoreErrors

\* C11: a cycle that ends on a templating, patcher or apply failure holds the
\* failure as an error condition under the label of its phase; when the status
\* update succeeds the store holds that condition and Reconcile returns a nil
\* error with a requeue after the short wait; an error it returns is the
\* status update's, never the failure itself.
C11_BusinessFailureRecorded ==
    \A p \in Parents :
        (Done(p) /\ result[p].line \in {148, 154, 160}) =>
            /\ BusinessFailure(p, result[p].line)
            /\ HasErrorCondition(cr[p].conditions, BusinessLabel(result[p].line))
            /\ result[p].RequeueAfter = shortWait
            /\ LastCall(p).out = "ok" =>
                  /\ result[p].err = Nil
                  /\ result[p].Requeue = FALSE
                  /\ HasErrorCondition(kubeParents[p].conditions,
                                       BusinessLabel(result[p].line))
            /\ result[p].err # Nil =>
                  /\ IsStatusError(result[p].err)
                  /\ result[p].err # ConditionMessage(p)

\* A child's Create failed, the status update recorded it, nil was returned.
C11_Witness ==
    \E p \in Parents :
        /\ Done(p)
        /\ result[p].line = 160
        /\ LastCall(p) = Call("Status.Update", 0, p, "ok")
        /\ result[p].err = Nil
        /\ result[p].RequeueAfter = shortWait
        /\ \E k \in FailedEntries(p) : trace[p][k].op = "Create"
        /\ HasErrorCondition(kubeParents[p].conditions, errApply)

\* The error Apply returned to line 158, read off the condition of line 159.
ApplyError(p) == SubSeq(ConditionMessage(p), 3, Len(ConditionMessage(p)))

\* The Apply of a child failed on a store call: its Get (other than
\* not-found), its Create or its Patch.
StoreApplyFailure(p) ==
    \E k \in FailedEntries(p) : trace[p][k].op \in {"Get", "Create", "Patch"}

\* C12 as stated: a store error met while applying a child is the error
\* Reconcile returns.
C12_Original ==
    \A p \in Parents :
        (Done(p) /\ StoreApplyFailure(p)) => result[p].err # Nil

\* C12 amended: a store error met while applying a child is put, under the
\* apply label and the child's identity, in the error condition of the parent,
\* and the cycle asks for a requeue after the short wait; the error Reconcile
\* returns is nil when the status update succeeds and the status update's
\* error otherwise, and never carries the apply label.
C12_ApplyErrorRecorded ==
    \A p \in Parents :
        (Done(p) /\ StoreApplyFailure(p)) =>
            /\ result[p].line = 160
            /\ Len(ConditionMessage(p)) >= 3
            /\ ConditionMessage(p)[1] = errApply
            /\ ConditionMessage(p)[2] = childResources[p][FailedChild(p)].name
            /\ \E cause \in StoreErrors :
                  ApplyError(p) \in {<<errGetChildResource>> \o cause,
                                     <<errCreateChildResource>> \o cause,
                                     cause}
            /\ result[p].RequeueAfter = shortWait
            /\ (result[p].err = Nil) <=> (LastCall(p).out = "ok")
            /\ \A k \in 1..Len(result[p].err) : result[p].err[k] # errApply

\* The Get of a child failed; the status update went through; nil is returned.
C12_Witness ==
    \E p \in Parents :
        /\ Done(p)
        /\ \E k \in FailedEntries(p) : trace[p][k].op = "Get"
        /\ ApplyError(p) = <<errGetChildResource>> \o errStore
        /\ LastCall(p) = Call("Status.Update", 0, p, "ok")
        /\ result[p].err = Nil

\* C13: when the Get of the parent fails other than with not-found, that Get
\* is the cycle's only call (no engine or patcher run, no Apply, no status
\* update), the parent object holds no condition, and Reconcile returns the
\* cause under the label "could not get the parent resource" with a result
\* that asks for no requeue.
C13_ParentGetError ==
    \A p \in Parents :
        Has(p, Call("Get", 0, p, "err")) =>
            /\ Done(p)
            /\ trace[p] = <<Call("Get", 0, p, "err")>>
            /\ result[p].line = 136
            /\ Len(result[p].err) >= 2
            /\ result[p].err[1] = errGetResource
            /\ Tail(result[p].err) \in {errStore, errDeadline}
            /\ result[p].Requeue = FALSE
            /\ result[p].RequeueAfter = 0
            /\ cr[p] = NoParent
            /\ childResources[p] = << >>

\* The parent is in the store, and its Get failed.
C13_Witness ==
    \E p \in Parents :
        /\ Done(p)
        /\ kubeParents[p].exists
        /\ trace[p] = <<Call("Get", 0, p, "err")>>
        /\ result[p].err = <<errGetResource>> \o errStore

\* ------------------------------------------------------ what a step writes
\* The names of the children the cycle of p templated.
OutputNames(p) == {childResources[p][k].name : k \in 1..Len(childResources[p])}

\* The step is a call of the cycle of p, and that call went through.
Made(p, op, name) ==
    /\ Len(trace'[p]) > Len(trace[p])
    /\ trace'[p][Len(trace'[p])].op = op
    /\ trace'[p][Len(trace'[p])].name = name
    /\ trace'[p][Len(trace'[p])].out = "ok"

\* A stored child stays stored, and changes only by the Create or the Patch
\* of a cycle whose list names it.
ChildrenKept ==
    \A n \in Names :
        /\ kubeChildren[n].exists => kubeChildren'[n].exists
        /\ kubeChildren'[n] # kubeChildren[n] =>
              \E p \in Parents :
                  /\ n \in OutputNames(p)
                  /\ IF kubeChildren[n].exists
                     THEN Made(p, "Patch", n) ELSE Made(p, "Create", n)

\* A parent changes in the store only by a status update, and only in its
\* conditions.
ParentsKept ==
    \A p \in Parents :
        kubeParents'[p] # kubeParents[p] =>
            /\ Made(p, "Status.Update", p)
            /\ kubeParents'[p] = [kubeParents[p] EXCEPT !.conditions = cr[p].conditions]

\* C14: no step of any cycle deletes a child. A child in the store stays in
\* it, and one the list of the cycle does not name is left as it is; the
\* store changes only by the Create or the merge Patch of a child of the list
\* and by the status update of the parent.
C14_NeverDeletes ==
    [][ChildrenKept /\ ParentsKept]_vars

\* A cycle made B; a later cycle, whose list does not name B, ended with
\* success and B is still stored as made.
C14_Witness ==
    \E p \in Parents :
        /\ Done(p)
        /\ result[p].line = 165
        /\ childResources[p] # << >>
        /\ "B" \notin OutputNames(p)
        /\ kubeChildren["B"].exists
        /\ kubeChildren["B"].fields["owner"] = p

\* ------------------------------------------------------ failure and retry
\* The cycle of p ended in a failure: the parent Get failed other than with
\* not-found, the engine, the patchers or an Apply failed, or the status
\* update failed.
FailedCycle(p) ==
    /\ Done(p)
    /\ \/ result[p].line = 136 /\ Has(p, Call("Get", 0, p, "err"))
       \/ result[p].line \in {148, 154, 160}
       \/ result[p].line = 165 /\ LastCall(p).out # "ok"

\* C15 as stated: no cycle that ends in a failure returns a nil error with
\* no requeue.
C15_Original ==
    \A p \in Parents :
        FailedCycle(p) => (result[p].err # Nil \/ result[p].RequeueAfter > 0)

\* C15 amended: a cycle that ends in a failure returns a non-nil error or,
\* after a templating, patcher or apply failure, a nil error with a requeue
\* after the configured short wait; with a short wait above zero the
\* scheduler owes the parent another cycle, with a short wait of zero the
\* result of a recorded failure is no error and no requeue.
C15_FailureRetried ==
    \A p \in Parents :
        FailedCycle(p) =>
            /\ \/ result[p].err # Nil
               \/ /\ result[p].line \in {148, 154, 160}
                  /\ result[p].RequeueAfter = shortWait
            /\ shortWait > 0 => Requeued(p)
            /\ (shortWait = 0 /\ result[p].err = Nil) => NoRequeueNoError(result[p])

\* A patcher failure was recorded and the result asks for the short wait.
C15_Witness ==
    \E p \in Parents :
        /\ FailedCycle(p)
        /\ result[p].line = 154
        /\ result[p].err = Nil
        /\ shortWait > 0
        /\ result[p].RequeueAfter = shortWait
        /\ Requeued(p)

\* The last cycle of p ended with success, the store holds the success
\* condition, and every child of the patched list is stored with the fields
\* the list gives it.
Converged(p) ==
    /\ Done(p)
    /\ result[p].line = 165
    /\ LastCall(p).out = "ok"
    /\ HasSuccessCondition(kubeParents[p].conditions)
    /\ \A k \in 1..Len(childResources[p]) :
          LET c == childResources[p][k]
          IN  /\ kubeChildren[c.name].exists
              /\ \A f \in DOMAIN c.fields :
                    /\ f \in DOMAIN kubeChildren[c.name].fields
                    /\ kubeChildren[c.name].fields[f] = c.fields[f]

\* A child of the current cycle did not serialise.
MarshalFailed(p) == \E k \in 1..Len(trace[p]) :
                       trace[p][k].op = "Marshal" /\ trace[p][k].out = "err"

\* The engine and the patchers have not failed in the current cycle.
Derived(p) ==
    /\ ~Has(p, Call("Run", 0, p, "err"))
    /\ ~Has(p, Call("Patchers", 0, p, "err"))

\* C16 as stated: when the engine and the patchers never fail and the store's
\* calls stop failing, a cycle ends converged.
C16_Original ==
    ([](\A p \in Parents : Derived(p)) /\ <>(~faulty)) =>
        <>(\E p \in Parents : Converged(p))

\* C16 amended: with a short wait above zero, when the engine and the
\* patchers never fail and the store's calls stop failing, a cycle ends
\* converged, unless the serialisation of a child goes on failing.
C16_Convergence ==
    (shortWait > 0 /\ [](\A p \in Parents : Derived(p)) /\ <>(~faulty)) =>
        \/ <>(\E p \in Parents : Converged(p))
        \/ []<>(\E p \in Parents : MarshalFailed(p))

\* After failures and their end, a cycle patched the drifted A, created B and
\* ended converged.
C16_Witness ==
    \E p \in Parents :
        /\ ~faulty
        /\ Converged(p)
        /\ Len(childResources[p]) = 2
        /\ Has(p, Call("Patch", 1, "A", "ok")) \/ Has(p, Call("Patch", 2, "A", "ok"))
        /\ kubeChildren["A"].fields["annot"] = "manual"
        /\ HasErrorCondition(cr[p].conditions, errApply) = FALSE

\* ------------------------------------------------------------ the deadline
StoreOps == {"Get", "Create", "Patch", "Status.Update"}

\* The step is a store call of the cycle of p.
Calls(p) ==
    /\ Len(trace'[p]) > Len(trace[p])
    /\ trace'[p][Len(trace'[p])].op \in StoreOps

\* What Reconcile returns when the deadline cut its last store call.
DeadlineErrors ==
    {<<errGetResource>> \o errDeadline, <<errUpdateResourceStatus>> \o errDeadline}

\* Once the deadline of the cycle of p has fired it stays fired to the end of
\* the cycle, every store call made after it fails, and the cycle returns
\* the deadline error under the label of its last call.
DeadlineBinds(p) ==
    /\ (ctxDone[p] /\ Calls(p)) =>
          /\ trace'[p][Len(trace'[p])].out = "err"
          /\ ctxDone'[p]
          /\ pc'[p] = "l160" =>
                ConditionMessage(p)'[Len(ConditionMessage(p)')] = errDeadline[1]
    /\ (ctxDone[p] /\ pc[p] \notin {"idle", "done"}) => ctxDone'[p]
    /\ (ctxDone'[p] /\ pc'[p] = "done") =>
          /\ result'[p].err \in DeadlineErrors
          /\ result'[p].line \in {136, 148, 154, 160, 165}

\* C17: one deadline bounds the cycle. Every store call of a cycle is made
\* under the one context; once the deadline has fired every later store call
\* of the cycle fails, and Reconcile returns a non-nil error, the timeout
\* under a label, never a nil error with the long or the short wait.
C17_DeadlineBoundsCycle ==
    [][\A p \in Parents : DeadlineBinds(p)]_vars

\* The deadline fired in the Create of a child; the status update failed on
\* it too, and its error is what Reconcile returned.
C17_Witness ==
    \E p \in Parents :
        /\ Done(p)
        /\ ctxDone[p]
        /\ result[p].line = 160
        /\ ApplyError(p) = <<errCreateChildResource>> \o errDeadline
        /\ LastCall(p) = Call("Status.Update", 0, p, "err")
        /\ result[p].err = <<errUpdateResourceStatus>> \o errDeadline

\* --------------------------------------------------- the errors of Apply
\* The Apply of a child of p has returned an error.
ApplyFailedAt(p) ==
    /\ FailedEntries(p) # {}
    /\ pc[p] = "l160" \/ (Done(p) /\ result[p].line = 160)

\* The call on which the Apply failed.
FailedCall(p) == trace[p][CHOOSE k \in FailedEntries(p) : TRUE]

\* err is a store error under label.
Labelled(err, label) ==
    /\ Len(err) >= 2
    /\ err[1] = label
    /\ Tail(err) \in StoreErrors

\* Apply returned nil for child i exactly when its Create or Patch went through.
NilIffWritten(p) ==
    \A i \in 1..Len(childResources[p]) :
        ApplyReturned(p, i) =>
            ((i < idx[p]) <=>
                \E k \in EntriesOf(p, i, WriteOps) : trace[p][k].out = "ok")

\* C18 as stated: the error of Apply carries the label of the failed store
\* call: the get label, the create label, or a patch label that is neither.
C18_Original ==
    \A p \in Parents :
        /\ NilIffWritten(p)
        /\ ApplyFailedAt(p) =>
              /\ FailedCall(p).op = "Get" => Labelled(ApplyError(p), errGetChildResource)
              /\ FailedCall(p).op = "Create" =>
                    Labelled(ApplyError(p), errCreateChildResource)
              /\ FailedCall(p).op = "Patch" =>
                    /\ Len(ApplyError(p)) >= 2
                    /\ ApplyError(p)[1] \notin {errCreateChildResource, errGetChildResource}
                    /\ Tail(ApplyError(p)) \in StoreErrors

\* C18 amended: a Get failure other than not-found comes back under the get
\* label and a Create failure under the create label; a Patch failure and a
\* serialisation failure come back as they are, under no label of Apply;
\* Apply returns nil exactly when its Create or Patch went through.
C18_ApplyErrorLabels ==
    \A p \in Parents :
        /\ NilIffWritten(p)
        /\ ApplyFailedAt(p) =>
              /\ FailedCall(p).op \in {"Get", "Create", "Patch", "Marshal"}
              /\ FailedCall(p).op = "Get" => Labelled(ApplyError(p), errGetChildResource)
              /\ FailedCall(p).op = "Create" =>
                    Labelled(ApplyError(p), errCreateChildResource)
              /\ FailedCall(p).op = "Patch" => ApplyError(p) \in StoreErrors
              /\ FailedCall(p).op = "Marshal" => ApplyError(p) = errMarshal

\* The first child was patched; the Create of the second failed on the store.
C18_Witness ==
    \E p \in Parents :
        /\ ApplyFailedAt(p)
        /\ FailedCall(p).op = "Create"
        /\ ApplyError(p) = <<errCreateChildResource>> \o errStore
        /\ FailedChild(p) = 2
        /\ \E k \in EntriesOf(p, 1, {"Patch"}) : trace[p][k].out = "ok"

\* ------------------------------------------------------- the merge patch
\* The step is the Patch of the cycle of p going through: the Apply of a
\* child the Get found returns nil.
Patched(p) == pc[p] = "MarshalPatch" /\ pc'[p] = "Apply"

\* The Patch is aimed at the object the Get fetched; in the stored object the
\* fields of the desired object take its values, the other fields keep
\* theirs; no other child changes, and the desired object is left as it was.
MergedInto(p) ==
    LET target == existing[p].name
        desired == childResources[p][idx[p]]
        before == kubeChildren[target].fields
        after == kubeChildren'[target].fields
    IN  /\ Made(p, "Patch", target)
        /\ target = desired.name
        /\ kubeChildren'[target].exists
        /\ DOMAIN after = (DOMAIN before) \cup (DOMAIN desired.fields)
        /\ \A f \in DOMAIN desired.fields : after[f] = desired.fields[f]
        /\ \A f \in (DOMAIN before) \ (DOMAIN desired.fields) : after[f] = before[f]
        /\ \A n \in Names \ {target} : kubeChildren'[n] = kubeChildren[n]
        /\ childResources' = childResources

\* C19: when Apply found the child in the store and returns nil, every field
\* of the desired object has the desired value in the stored object, drifted
\* or not, and every field the desired object lacks keeps the value it had;
\* the Patch is made on the object the Get fetched.
C19_MergePatchFrame ==
    [][\A p \in Parents : Patched(p) => MergedInto(p)]_vars

\* The drifted A was patched: its spec is the desired one, the owner was
\* added, and the annotation set by hand is still there.
C19_Witness ==
    \E p \in Parents :
        /\ pc[p] = "Apply"
        /\ idx[p] = 2
        /\ ChildCalls(p, 1) = <<Call("Get", 1, "A", "ok"), Call("Marshal", 1, "A", "ok"),
                                Call("Patch", 1, "A", "ok")>>
        /\ kubeChildren["A"].fields["spec"] = childResources[p][1].fields["spec"]
        /\ kubeChildren["A"].fields["spec"] # Drifted.fields["spec"]
        /\ kubeChildren["A"].fields["owner"] = p
        /\ kubeChildren["A"].fields["annot"] = Drifted.fields["annot"]

\* ------------------------------------------------- the get-then-create race
\* The cycle of p made the Create of child n and it went through.
Created(p, n) ==
    \E k \in 1..Len(trace[p]) :
        trace[p][k].op = "Create" /\ trace[p][k].name = n /\ trace[p][k].out = "ok"

\* The Create of child i of p was refused: the object was already there.
LostRace(p, i) ==
    Has(p, Call("Create", i, childResources[p][i].name, "exists"))

\* C20: of the cycles that found a child missing and went on to create it,
\* at most one has its Create go through, and the child is then in the store;
\* the cycle whose Create is refused makes no Patch of that child, sets the
\* apply error condition and returns the short wait; a cycle sets the
\* success condition only after a Create or Patch of each of its children
\* went through in that cycle.
C20_CreateRace ==
    /\ \A n \in Names :
          /\ Cardinality({p \in Parents : Created(p, n)}) <= 1
          /\ (\E p \in Parents : Created(p, n)) => kubeChildren[n].exists
    /\ \A p \in Parents :
          /\ \A i \in 1..Len(childResources[p]) :
                LostRace(p, i) =>
                    /\ Has(p, Call("Get", i, childResources[p][i].name, "notfound"))
                    /\ EntriesOf(p, i, {"Marshal", "Patch"}) = {}
                    /\ idx[p] = i
                    /\ pc[p] \in {"l160", "done"}
                    /\ ConditionMessage(p) =
                          <<errApply, childResources[p][i].name, errCreateChildResource>>
                              \o errAlreadyExists
                    /\ Done(p) =>
                          /\ result[p].line = 160
                          /\ result[p].RequeueAfter = shortWait
                          /\ shortWait > 0
          /\ (pc[p] = "l165" \/ (Done(p) /\ result[p].line = 165)) =>
                \A i \in 1..Len(childResources[p]) :
                    \E k \in EntriesOf(p, i, WriteOps) : trace[p][k].out = "ok"

\* Both cycles found A missing; one created it, the other's Create was
\* refused and its cycle ended with the error recorded and the short wait.
C20_Witness ==
    \E p, q \in Parents :
        /\ p # q
        /\ Has(p, Call("Get", 1, "A", "notfound"))
        /\ Created(p, "A")
        /\ Has(q, Call("Get", 1, "A", "notfound"))
        /\ LostRace(q, 1)
        /\ Done(q)
        /\ result[q].err = Nil
        /\ result[q].RequeueAfter = shortWait
        /\ HasErrorCondition(kubeParents[q].conditions, errApply)
        /\ kubeChildren["A"].fields["owner"] = p

====
